---- MODULE Spec2Model ----
\* GraphSentinel Voice (src/main.py): a FastAPI service with six HTTP
\* operations, one process-wide dictionary (audio_cache) and three upstream
\* providers.  Every request is an asyncio task; a task is modelled as a
\* stack of coroutine frames (send_alert -> send_teams -> generate_voice),
\* and every action below is one straight-line piece of one coroutine.
EXTENDS Integers, Sequences, FiniteSets, TLC

\* ------------------------------------------------------------------ bounds
MaxTasks == 2          \* request slots that may be in flight together
MaxReq   == 1          \* requests accepted in one behaviour of Spec
MaxCacheReq == 3       \* requests accepted in one behaviour of CacheSpec

Tasks == 1..MaxTasks

\* ------------------------------------------------------------ input values
\* Optional[str]: None or a string.
None    == [some |-> FALSE]
Some(v) == [some |-> TRUE, v |-> v]

\* Identifiers are strings, written as sequences: <<>> is the empty string,
\* <<"VOC", t>> is "VOC-" followed by the formatted time t, <<"USR", n>> is
\* some other text chosen by a caller.
EmptyStr == <<>>
UserIds  == { <<"USR", 1>> }
ThreatIdArgs == {None, Some(EmptyStr)} \cup {Some(i) : i \in UserIds}

PhoneArgs == {None, Some("+49")}
Channels  == {"teams", "call", "voice"}
Audio     == {"mp3a", "mp3b"}
\* A message text, written with its length: <<text, len(text)>>.
Messages  == { <<"Intrusion detected on node 7", 28>> }
len(message) == message[2]
ConfigValues == {"", "set"}

\* What an awaited upstream POST can produce: a response with a status
\* code, or an exception raised by the HTTP client (timeout, connection).
StatusCodes == {200, 201, 500}
TransportError == [type |-> "TransportError"]

\* Python truthiness of a str and of an Optional[str].
Bool(s)   == s # ""
Truthy(o) == o.some /\ o.v # EmptyStr
TruthyPhone(o) == o.some /\ o.v # ""

\* datetime.now().strftime('%Y%m%d%H%M%S'): one text per second.
strftime(t) == t
Times == {0, 1}
NewId(prefix, t) == <<prefix, strftime(t)>>

VARIABLES
  ELEVENLABS_KEY, TWILIO_SID, TWILIO_TOKEN, TWILIO_FROM, TEAMS_WEBHOOK,
  audio_cache,   \* dict: identifier -> bytes
  stack,         \* per task: coroutine frames, innermost first
  resp,          \* per task: the HTTP response of its last request
  now,           \* wall clock, in seconds, as last read
  log,           \* per task: what the current request did so far
  history,       \* identifier -> the bytes of its successful syntheses
  budget         \* requests this behaviour may still accept

config == <<ELEVENLABS_KEY, TWILIO_SID, TWILIO_TOKEN, TWILIO_FROM, TEAMS_WEBHOOK>>
vars == <<ELEVENLABS_KEY, TWILIO_SID, TWILIO_TOKEN, TWILIO_FROM, TEAMS_WEBHOOK,
          audio_cache, stack, resp, now, log, history, budget>>

\* ------------------------------------------------------------- dictionary
EmptyDict == [k \in {} |-> ""]
DictSet(d, k, v) == [x \in (DOMAIN d) \cup {k} |-> IF x = k THEN v ELSE d[x]]

\* ------------------------------------------------------------- exceptions
HTTPException(status, detail) ==
  [type |-> "HTTPException", status |-> status, detail |-> detail]

\* str(e) as used by send_alert's except clauses.
StrExc(e) ==
  IF e.type = "HTTPException" THEN <<e.status, e.detail>> ELSE <<0, e.type>>

NoRet    == [kind |-> "none"]
Value(v) == [kind |-> "value", val |-> v]
Raise(e) == [kind |-> "exc", exc |-> e]

NoResp == [kind |-> "none"]

\* What the framework sends for a handler's return value or exception.
HTTPResponse(op, r) ==
  IF r.kind = "value" THEN [kind |-> "ok", op |-> op, status |-> 200, body |-> r.val]
  ELSE IF r.exc.type = "HTTPException"
       THEN [kind |-> "error", op |-> op, status |-> r.exc.status, detail |-> r.exc.detail]
       ELSE [kind |-> "error", op |-> op, status |-> 500, detail |-> "Internal Server Error"]

\* ------------------------------------------------------------------ frames
Frame(fn, req) == [fn |-> fn, pc |-> "start", req |-> req, loc |-> [x |-> 0], ret |-> NoRet]

Top(p)  == stack[p][1]
Rest(p) == Tail(stack[p])
At(p, fn, pc) == stack[p] # <<>> /\ Top(p).fn = fn /\ Top(p).pc = pc
Idle(p) == stack[p] = <<>>

\* Names of the coroutines on the task's stack, outermost first.
RECURSIVE Rev(_)
Rev(s) == IF s = <<>> THEN <<>> ELSE Rev(Tail(s)) \o <<Head(s)>>
Ctx(p) == Rev([i \in 1..Len(stack[p]) |-> stack[p][i].fn])

\* datetime.now(): the clock shows t, no earlier than when it was last read.
ClockShows(t) == t \in Times /\ t >= now /\ now' = t

\* The clock is read only to make up an identifier that was not supplied.
ReadsClock(supplied, t) == IF Truthy(supplied) THEN t = now /\ now' = now ELSE ClockShows(t)

NewIdEvent(supplied, id) ==
  IF Truthy(supplied) THEN <<>> ELSE << [ev |-> "new_id", id |-> id] >>
PostEvent(p, api) == << [ev |-> "post", api |-> api, ctx |-> Ctx(p)] >>
StoreEvent(id) == << [ev |-> "store", id |-> id] >>
EndEvent(p, r) ==
  IF r.kind = "value" THEN << [ev |-> "return", ctx |-> Ctx(p)] >>
  ELSE << [ev |-> "raise", ctx |-> Ctx(p), exc |-> r.exc] >>

\* The innermost frame, after doing evs, finishes with r (a value or an
\* exception): the awaiting caller gets it, or the framework answers the
\* request.
Finish(p, evs, r) ==
  /\ log' = [log EXCEPT ![p] = @ \o evs \o EndEvent(p, r)]
  /\ IF Rest(p) = <<>>
     THEN /\ stack' = [stack EXCEPT ![p] = <<>>]
          /\ resp'  = [resp EXCEPT ![p] = HTTPResponse(Top(p).fn, r)]
     ELSE /\ stack' = [stack EXCEPT ![p] = <<[Rest(p)[1] EXCEPT !.ret = r]>> \o Tail(Rest(p))]
          /\ UNCHANGED resp

\* The innermost frame, after doing evs, moves to pc (with locals loc) and
\* awaits the coroutine callee.
Await(p, evs, pc, loc, callee) ==
  /\ log' = [log EXCEPT ![p] = @ \o evs \o << [ev |-> "call", ctx |-> Ctx(p) \o <<callee.fn>>] >>]
  /\ stack' = [stack EXCEPT ![p] =
        <<callee, [Top(p) EXCEPT !.pc = pc, !.loc = loc, !.ret = NoRet]>> \o Rest(p)]
  /\ UNCHANGED resp

\* The innermost frame, after doing evs, moves to pc (with locals loc) and
\* stays innermost: this piece ends at an awaited upstream POST, or the
\* next piece starts at a branch of the source.
Goto(p, evs, pc, loc) ==
  /\ log' = [log EXCEPT ![p] = @ \o evs]
  /\ stack' = [stack EXCEPT ![p] =
        <<[Top(p) EXCEPT !.pc = pc, !.loc = loc, !.ret = NoRet]>> \o Rest(p)]
  /\ UNCHANGED resp

\* A request arrives at an idle slot.
Arrives(p) ==
  /\ Idle(p)
  /\ budget > 0
  /\ budget' = budget - 1

\* Its handler coroutine is created with the parsed request.
Accept(p, frame) ==
  /\ Arrives(p)
  /\ stack' = [stack EXCEPT ![p] = <<frame>>]
  /\ resp'  = [resp EXCEPT ![p] = NoResp]
  /\ log'   = [log EXCEPT ![p] = <<>>]

\* A handler that never suspends answers at once.
Answer(p, r) ==
  /\ Arrives(p)
  /\ stack' = stack
  /\ resp'  = [resp EXCEPT ![p] = r]
  /\ log'   = [log EXCEPT ![p] = <<>>]

\* ------------------------------------------------------------ capabilities
\* GET / : the capability flags.
RootFlags ==
  [elevenlabs |-> Bool(ELEVENLABS_KEY),
   twilio     |-> Bool(TWILIO_SID) /\ Bool(TWILIO_TOKEN),
   teams      |-> Bool(TEAMS_WEBHOOK)]

\* The preconditions of the three clients.
GenerateVoiceConfigured == Bool(ELEVENLABS_KEY)
MakeCallConfigured_SidOnly == Bool(TWILIO_SID)
MakeCallConfigured == Bool(TWILIO_SID) /\ Bool(TWILIO_TOKEN) /\ Bool(TWILIO_FROM)
SendTeamsConfigured == Bool(TEAMS_WEBHOOK)

\* The guards of the three channels in send_alert.
AlertTeamsGuard(channels) == "teams" \in channels /\ Bool(TEAMS_WEBHOOK)
AlertCallGuard(channels, phone) ==
  "call" \in channels /\ TruthyPhone(phone) /\ Bool(TWILIO_SID)
AlertVoiceGuard(channels) == "voice" \in channels /\ Bool(ELEVENLABS_KEY)

\* ----------------------------------------------------------------- Init
Start(requests) ==
  /\ ELEVENLABS_KEY \in ConfigValues
  /\ TWILIO_SID \in ConfigValues
  /\ TWILIO_TOKEN \in ConfigValues
  /\ TWILIO_FROM \in ConfigValues
  /\ TEAMS_WEBHOOK \in ConfigValues
  /\ audio_cache = EmptyDict
  /\ stack = [p \in Tasks |-> <<>>]
  /\ resp = [p \in Tasks |-> NoResp]
  /\ now = 0
  /\ log = [p \in Tasks |-> <<>>]
  /\ history = [i \in {} |-> [bytes |-> {}, last |-> ""]]
  /\ budget = requests

Init == Start(MaxReq)

\* ------------------------------------------------------ GET / and /health
root(p) ==
  /\ Answer(p, [kind |-> "ok", op |-> "root", status |-> 200,
                body |-> [service |-> "GraphSentinel Voice", status |-> "operational",
                          capabilities |-> RootFlags]])
  /\ UNCHANGED <<config, audio_cache, now, history>>

health(p) ==
  /\ \E t \in Times :
       /\ ClockShows(t)
       /\ Answer(p, [kind |-> "ok", op |-> "health", status |-> 200,
                     body |-> [status |-> "healthy", timestamp |-> t]])
  /\ UNCHANGED <<config, audio_cache, history>>

\* ----------------------------------------------------- POST /api/generate
VoiceRequest(message, threat_id) ==
  [message |-> message, language |-> "de", threat_id |-> threat_id]

\* req.threat_id or f"VOC-{...}"
VoiceThreatId(req, t) == IF Truthy(req.threat_id) THEN req.threat_id.v ELSE NewId("VOC", t)

\* if resp.status_code != 200: raise
VoiceStores_Any2xx(status) == status \in {200, 201}
VoiceStores(status) == status = 200

CacheStore_KeepFirst(cache, threat_id, content) ==
  IF threat_id \in DOMAIN cache THEN cache ELSE DictSet(cache, threat_id, content)

\* audio_cache[threat_id] = resp.content
CacheStore(cache, threat_id, content) == DictSet(cache, threat_id, content)

\* History: the upstream answered 200 with content to a synthesis under id.
Synthesized(h, id, content) ==
  DictSet(h, id, [bytes |-> (IF id \in DOMAIN h THEN h[id].bytes ELSE {}) \cup {content},
                  last  |-> content])

api_generate(p) ==
  /\ \E m \in Messages, t \in ThreatIdArgs :
       Accept(p, Frame("generate_voice", VoiceRequest(m, t)))
  /\ UNCHANGED <<config, audio_cache, now, history>>

generate_voice_start_NoCheck(p) ==
  /\ At(p, "generate_voice", "start")
  /\ \E t \in Times :
       LET threat_id == VoiceThreatId(Top(p).req, t) IN
       /\ ReadsClock(Top(p).req.threat_id, t)
       /\ Goto(p, NewIdEvent(Top(p).req.threat_id, threat_id) \o PostEvent(p, "elevenlabs"),
               "await_post", [threat_id |-> threat_id])
  /\ UNCHANGED <<config, audio_cache, history, budget>>

\* Lines 86-107: the precondition, the identifier, the POST to ElevenLabs.
generate_voice_start(p) ==
  /\ At(p, "generate_voice", "start")
  /\ IF ~GenerateVoiceConfigured
     THEN /\ Finish(p, <<>>, Raise(HTTPException(503, "ElevenLabs not configured")))
          /\ UNCHANGED now
     ELSE \E t \in Times :
          LET threat_id == VoiceThreatId(Top(p).req, t) IN
          /\ ReadsClock(Top(p).req.threat_id, t)
          /\ Goto(p, NewIdEvent(Top(p).req.threat_id, threat_id) \o PostEvent(p, "elevenlabs"),
                  "await_post", [threat_id |-> threat_id])
  /\ UNCHANGED <<config, audio_cache, history, budget>>

\* Lines 109-118: the response (status 0: the client's exception) arrives.
\* Leaving "async with" closes the HTTP client and touches nothing else.
generate_voice_resp(p) ==
  /\ At(p, "generate_voice", "await_post")
  /\ \E status \in StatusCodes \cup {0}, content \in Audio :
       LET threat_id == Top(p).loc.threat_id IN
       /\ history' = IF status = 200 THEN Synthesized(history, threat_id, content) ELSE history
       /\ IF status = 0
          THEN /\ Finish(p, <<>>, Raise(TransportError))
               /\ UNCHANGED audio_cache
          ELSE IF ~VoiceStores(status)
          THEN /\ Finish(p, <<>>, Raise(HTTPException(status, "ElevenLabs error")))
               /\ UNCHANGED audio_cache
          ELSE /\ audio_cache' = CacheStore(audio_cache, threat_id, content)
               /\ Finish(p, StoreEvent(threat_id),
                         Value([threat_id |-> threat_id,
                                audio_url |-> <<"/api/audio/", threat_id>>,
                                duration_estimate |-> len(Top(p).req.message) \div 15]))
  /\ UNCHANGED <<config, now, budget>>

\* ------------------------------------------------ GET /api/audio/{threat_id}
\* The path parameter is never empty: the route does not match "/api/audio/".
AudioPaths == UserIds \cup {NewId(pre, t) : pre \in {"VOC", "TMS", "ALT"}, t \in Times}

CacheFetch_Fallback(cache, threat_id) ==
  IF cache = EmptyDict
  THEN [kind |-> "error", op |-> "get_audio", status |-> 404, detail |-> "Audio not found",
        threat_id |-> threat_id]
  ELSE [kind |-> "ok", op |-> "get_audio", status |-> 200,
        body |-> IF threat_id \in DOMAIN cache THEN cache[threat_id]
                 ELSE cache[CHOOSE k \in DOMAIN cache : TRUE],
        threat_id |-> threat_id]

CacheFetch(cache, threat_id) ==
  IF threat_id \notin DOMAIN cache
  THEN [kind |-> "error", op |-> "get_audio", status |-> 404, detail |-> "Audio not found",
        threat_id |-> threat_id]
  ELSE [kind |-> "ok", op |-> "get_audio", status |-> 200, body |-> cache[threat_id],
        threat_id |-> threat_id]

get_audio(p) ==
  /\ \E threat_id \in AudioPaths : Answer(p, CacheFetch(audio_cache, threat_id))
  /\ UNCHANGED <<config, audio_cache, now, history>>

\* --------------------------------------------------------- POST /api/call
CallRequest(to_number, message, threat_id) ==
  [to_number |-> to_number, message |-> message, threat_id |-> threat_id]

api_call(p) ==
  /\ \E m \in Messages, t \in ThreatIdArgs, n \in {"", "+49"} :
       Accept(p, Frame("make_call", CallRequest(n, m, t)))
  /\ UNCHANGED <<config, audio_cache, now, history>>

make_call_start_NoSynthesis(p) ==
  /\ At(p, "make_call", "start")
  /\ IF ~MakeCallConfigured
     THEN Finish(p, <<>>, Raise(HTTPException(503, "Twilio not configured")))
     ELSE Goto(p, PostEvent(p, "twilio"), "await_post",
               [voice_result |-> [threat_id |-> Top(p).req.threat_id]])
  /\ UNCHANGED <<config, audio_cache, now, history, budget>>

\* Lines 137-142: the precondition, then await generate_voice.
make_call_start(p) ==
  /\ At(p, "make_call", "start")
  /\ IF ~MakeCallConfigured
     THEN Finish(p, <<>>, Raise(HTTPException(503, "Twilio not configured")))
     ELSE Await(p, <<>>, "await_voice", [x |-> 0],
                Frame("generate_voice", VoiceRequest(Top(p).req.message, Top(p).req.threat_id)))
  /\ UNCHANGED <<config, audio_cache, now, history, budget>>

\* Lines 142-161: generate_voice returned (or raised); the POST to Twilio.
make_call_post(p) ==
  /\ At(p, "make_call", "await_voice")
  /\ Top(p).ret.kind # "none"
  /\ IF Top(p).ret.kind = "exc"
     THEN Finish(p, <<>>, Top(p).ret)
     ELSE Goto(p, PostEvent(p, "twilio"), "await_post", [voice_result |-> Top(p).ret.val])
  /\ UNCHANGED <<config, audio_cache, now, history, budget>>

\* Lines 163-173.
make_call_resp(p) ==
  /\ At(p, "make_call", "await_post")
  /\ \E status \in StatusCodes \cup {0} :
       IF status = 0 THEN Finish(p, <<>>, Raise(TransportError))
       ELSE IF status \notin {200, 201}
       THEN Finish(p, <<>>, Raise(HTTPException(status, "Twilio error")))
       ELSE Finish(p, <<>>, Value([status |-> "initiated", call_sid |-> "CA1",
                                   to |-> Top(p).req.to_number,
                                   threat_id |-> Top(p).loc.voice_result.threat_id]))
  /\ UNCHANGED <<config, audio_cache, now, history, budget>>

\* -------------------------------------------------------- POST /api/teams
TeamsRequest(message, threat_id, include_audio) ==
  [message |-> message, threat_id |-> threat_id, include_audio |-> include_audio]

TeamsThreatId_AlwaysNew(req, t) == NewId("TMS", t)

\* req.threat_id or f"TMS-{...}"
TeamsThreatId(req, t) == IF Truthy(req.threat_id) THEN req.threat_id.v ELSE NewId("TMS", t)

api_teams(p) ==
  /\ \E m \in Messages, t \in ThreatIdArgs, a \in BOOLEAN :
       Accept(p, Frame("send_teams", TeamsRequest(m, t, a)))
  /\ UNCHANGED <<config, audio_cache, now, history>>

\* Lines 179-190 (and 195-222 when no audio is generated).
send_teams_start(p) ==
  /\ At(p, "send_teams", "start")
  /\ IF ~SendTeamsConfigured
     THEN /\ Finish(p, <<>>, Raise(HTTPException(503, "Teams webhook not configured")))
          /\ UNCHANGED now
     ELSE \E t \in Times :
          LET req == Top(p).req
              threat_id == TeamsThreatId(req, t)
              loc == [threat_id |-> threat_id, audio_url |-> None]
              new == NewIdEvent(req.threat_id, threat_id)
          IN /\ ReadsClock(req.threat_id, t)
             /\ IF req.include_audio /\ Bool(ELEVENLABS_KEY)
                THEN Await(p, new, "await_voice", loc,
                           Frame("generate_voice", VoiceRequest(req.message, Some(threat_id))))
                ELSE Goto(p, new \o PostEvent(p, "teams"), "await_post", loc)
  /\ UNCHANGED <<config, audio_cache, history, budget>>

\* Lines 187-222: generate_voice returned (or raised); the POST to the webhook.
send_teams_post(p) ==
  /\ At(p, "send_teams", "await_voice")
  /\ Top(p).ret.kind # "none"
  /\ IF Top(p).ret.kind = "exc"
     THEN Finish(p, <<>>, Top(p).ret)
     ELSE Goto(p, PostEvent(p, "teams"), "await_post",
               [Top(p).loc EXCEPT !.audio_url = Some(Top(p).ret.val.audio_url)])
  /\ UNCHANGED <<config, audio_cache, now, history, budget>>

\* Lines 224-232.
send_teams_resp(p) ==
  /\ At(p, "send_teams", "await_post")
  /\ \E status \in StatusCodes \cup {0} :
       IF status = 0 THEN Finish(p, <<>>, Raise(TransportError))
       ELSE IF status \notin {200, 201}
       THEN Finish(p, <<>>, Raise(HTTPException(status, "Teams error")))
       ELSE Finish(p, <<>>, Value([status |-> "sent", threat_id |-> Top(p).loc.threat_id,
                                   channel |-> "teams",
                                   audio_generated |-> Top(p).loc.audio_url # None]))
  /\ UNCHANGED <<config, audio_cache, now, history, budget>>

\* -------------------------------------------------------- POST /api/alert
\* threat_id or f"ALT-{...}"
AlertThreatId(args, t) == IF Truthy(args.threat_id) THEN args.threat_id.v ELSE NewId("ALT", t)

\* results[channel] = await client(...), or {"error": str(e)}
ChannelResult(ret) == IF ret.kind = "value" THEN ret.val ELSE [error |-> StrExc(ret.exc)]

api_alert(p) ==
  /\ \E m \in Messages, c \in SUBSET Channels, ph \in PhoneArgs, t \in ThreatIdArgs :
       Accept(p, Frame("send_alert",
                       [message |-> m, channels |-> c, phone |-> ph, threat_id |-> t]))
  /\ UNCHANGED <<config, audio_cache, now, history>>

\* Lines 243-251.
send_alert_start(p) ==
  /\ At(p, "send_alert", "start")
  /\ \E t \in Times :
     LET args == Top(p).req
         threat_id == AlertThreatId(args, t)
         loc == [threat_id |-> threat_id, results |-> EmptyDict]
         new == NewIdEvent(args.threat_id, threat_id)
     IN /\ ReadsClock(args.threat_id, t)
        /\ IF AlertTeamsGuard(args.channels)
           THEN Await(p, new, "teams_ret", loc,
                      Frame("send_teams", TeamsRequest(args.message, Some(threat_id), TRUE)))
           ELSE Goto(p, new, "call", loc)
  /\ UNCHANGED <<config, audio_cache, history, budget>>

send_alert_teams_ret_NoExcept(p) ==
  /\ At(p, "send_alert", "teams_ret")
  /\ Top(p).ret.kind # "none"
  /\ IF Top(p).ret.kind = "exc"
     THEN Finish(p, <<>>, Top(p).ret)
     ELSE Goto(p, <<>>, "call", [Top(p).loc EXCEPT !.results = DictSet(@, "teams", Top(p).ret.val)])
  /\ UNCHANGED <<config, audio_cache, now, history, budget>>

\* Lines 248 and 252-253.
send_alert_teams_ret(p) ==
  /\ At(p, "send_alert", "teams_ret")
  /\ Top(p).ret.kind # "none"
  /\ Goto(p, <<>>, "call", [Top(p).loc EXCEPT
                              !.results = DictSet(@, "teams", ChannelResult(Top(p).ret))])
  /\ UNCHANGED <<config, audio_cache, now, history, budget>>

send_alert_call_SkipsCall(p) ==
  /\ At(p, "send_alert", "call")
  /\ Goto(p, <<>>, "voice", Top(p).loc)
  /\ UNCHANGED <<config, audio_cache, now, history, budget>>

\* Lines 255-261.
send_alert_call(p) ==
  /\ At(p, "send_alert", "call")
  /\ LET args == Top(p).req IN
     IF AlertCallGuard(args.channels, args.phone)
     THEN Await(p, <<>>, "call_ret", Top(p).loc,
                Frame("make_call", CallRequest(args.phone.v, args.message,
                                               Some(Top(p).loc.threat_id))))
     ELSE Goto(p, <<>>, "voice", Top(p).loc)
  /\ UNCHANGED <<config, audio_cache, now, history, budget>>

\* Lines 257 and 262-263.
send_alert_call_ret(p) ==
  /\ At(p, "send_alert", "call_ret")
  /\ Top(p).ret.kind # "none"
  /\ Goto(p, <<>>, "voice", [Top(p).loc EXCEPT
                               !.results = DictSet(@, "call", ChannelResult(Top(p).ret))])
  /\ UNCHANGED <<config, audio_cache, now, history, budget>>

\* Lines 265-270.
send_alert_voice(p) ==
  /\ At(p, "send_alert", "voice")
  /\ LET args == Top(p).req IN
     IF AlertVoiceGuard(args.channels)
     THEN Await(p, <<>>, "voice_ret", Top(p).loc,
                Frame("generate_voice", VoiceRequest(args.message, Some(Top(p).loc.threat_id))))
     ELSE Goto(p, <<>>, "return", Top(p).loc)
  /\ UNCHANGED <<config, audio_cache, now, history, budget>>

\* Lines 267 and 271-272.
send_alert_voice_ret(p) ==
  /\ At(p, "send_alert", "voice_ret")
  /\ Top(p).ret.kind # "none"
  /\ Goto(p, <<>>, "return", [Top(p).loc EXCEPT
                                !.results = DictSet(@, "voice", ChannelResult(Top(p).ret))])
  /\ UNCHANGED <<config, audio_cache, now, history, budget>>

\* Lines 274-277.
send_alert_return(p) ==
  /\ At(p, "send_alert", "return")
  /\ Finish(p, <<>>, Value([threat_id |-> Top(p).loc.threat_id,
                            channels |-> Top(p).loc.results]))
  /\ UNCHANGED <<config, audio_cache, now, history, budget>>

\* ------------------------------------------------------------------- Next
\* Everything task p can do: accept a request, or run the next piece of
\* its innermost coroutine.
Serve(p) ==
  \/ root(p)
  \/ health(p)
  \/ get_audio(p)
  \/ api_generate(p)
  \/ generate_voice_start(p)
  \/ generate_voice_resp(p)
  \/ api_call(p)
  \/ make_call_start(p)
  \/ make_call_post(p)
  \/ make_call_resp(p)
  \/ api_teams(p)
  \/ send_teams_start(p)
  \/ send_teams_post(p)
  \/ send_teams_resp(p)
  \/ api_alert(p)
  \/ send_alert_start(p)
  \/ send_alert_teams_ret(p)
  \/ send_alert_call(p)
  \/ send_alert_call_ret(p)
  \/ send_alert_voice(p)
  \/ send_alert_voice_ret(p)
  \/ send_alert_return(p)

\* Requests served one after another (task 1 alone), every endpoint.
Next == Serve(1)

Spec == Init /\ [][Next]_vars

\* Tasks racing on audio_cache: synthesis and retrieval requests in flight
\* together.
CacheNext ==
  \E p \in Tasks :
    \/ api_generate(p)
    \/ generate_voice_start(p)
    \/ generate_voice_resp(p)
    \/ get_audio(p)

CacheInit ==
  /\ Start(MaxCacheReq)
  /\ TWILIO_SID = "" /\ TWILIO_TOKEN = "" /\ TWILIO_FROM = "" /\ TEAMS_WEBHOOK = ""

CacheSpec == CacheInit /\ [][CacheNext]_vars

\* ------------------------------------------------------------- properties
\* The capabilities as section 4.1 of the specification defines them:
\* enabled iff every required value is non-empty.
SpeechEnabled    == ELEVENLABS_KEY # ""
TelephonyEnabled == TWILIO_SID # "" /\ TWILIO_TOKEN # "" /\ TWILIO_FROM # ""
ChatEnabled      == TEAMS_WEBHOOK # ""

Clients == {"generate_voice", "make_call", "send_teams"}
ClientOf(c) == CASE c = "teams" -> "send_teams" [] c = "call" -> "make_call"
                 [] c = "voice" -> "generate_voice"
EnabledFor(fn) == CASE fn = "generate_voice" -> SpeechEnabled
                    [] fn = "make_call" -> TelephonyEnabled
                    [] fn = "send_teams" -> ChatEnabled
NotConfigured(fn) == CASE fn = "generate_voice" -> "ElevenLabs not configured"
                       [] fn = "make_call" -> "Twilio not configured"
                       [] fn = "send_teams" -> "Teams webhook not configured"

Busy(p)  == stack[p] # <<>>
Outer(p) == stack[p][Len(stack[p])]
\* The request being served, or last served, by task p is for handler fn.
Serving(p, fn) == IF Busy(p) THEN Outer(p).fn = fn
                  ELSE resp[p].kind # "none" /\ resp[p].op = fn
Answered(p, fn) == ~Busy(p) /\ resp[p].kind # "none" /\ resp[p].op = fn

\* send_alert has gone through all three channels and is about to return.
AlertDone(p) == Len(stack[p]) = 1 /\ At(p, "send_alert", "return")

IsError(e)   == "error" \in DOMAIN e
IsSuccess(e) == "error" \notin DOMAIN e

Has(p, ev, ctx) == \E i \in 1..Len(log[p]) : log[p][i].ev = ev /\ log[p][i].ctx = ctx
Evs(p, kinds)   == {i \in 1..Len(log[p]) : log[p][i].ev \in kinds}

\* send_alert awaited the client of channel c; it returned; it raised.
Attempted(p, c) == Has(p, "call", <<"send_alert", ClientOf(c)>>)
Returned(p, c)  == Has(p, "return", <<"send_alert", ClientOf(c)>>)
RaisedIn(p, c)  == Has(p, "raise", <<"send_alert", ClientOf(c)>>)

\* ------------------------------------------------------------------ C1
\* C1 as claimed: send_alert with channels {"teams","call"}, chat enabled,
\* telephony disabled and the webhook upstream succeeding returns a map
\* with a success entry under "teams" and an error entry under "call",
\* neither key omitted.
C1_TeamsSuccessAndCallError ==
  \A p \in Tasks :
    (/\ AlertDone(p)
     /\ Top(p).req.channels = {"teams", "call"}
     /\ ChatEnabled /\ ~TelephonyEnabled
     /\ Returned(p, "teams"))
    => LET r == Top(p).loc.results IN
       /\ "teams" \in DOMAIN r /\ IsSuccess(r["teams"])
       /\ "call" \in DOMAIN r /\ IsError(r["call"])

\* C1 amended: under the same conditions the map always has a "teams"
\* key, with a success entry when the webhook upstream succeeded; the
\* "call" key holds the error entry 503 "Twilio not configured" exactly
\* when a non-empty phone was supplied and TWILIO_SID is non-empty, and is
\* omitted otherwise.
C1_TeamsSuccessAndCallErrorIfSid ==
  \A p \in Tasks :
    (/\ AlertDone(p)
     /\ Top(p).req.channels = {"teams", "call"}
     /\ ChatEnabled /\ ~TelephonyEnabled)
    => LET r == Top(p).loc.results IN
       /\ "teams" \in DOMAIN r
       /\ Returned(p, "teams") => IsSuccess(r["teams"])
       /\ "call" \in DOMAIN r <=> (TruthyPhone(Top(p).req.phone) /\ TWILIO_SID # "")
       /\ "call" \in DOMAIN r => r["call"] = [error |-> <<503, "Twilio not configured">>]

C1_Witness ==
  \E p \in Tasks :
    /\ AlertDone(p)
    /\ Top(p).req.channels = {"teams", "call"}
    /\ ChatEnabled /\ ~TelephonyEnabled
    /\ LET r == Top(p).loc.results IN
       /\ DOMAIN r = {"teams", "call"}
       /\ IsSuccess(r["teams"]) /\ IsError(r["call"])

\* ------------------------------------------------------------------ C2
\* C2: in send_alert, whether a channel is attempted depends on the request
\* and the configuration alone, never on how another channel ended: every
\* requested and enabled channel (for "call": with a phone supplied) is
\* attempted; an attempted channel has an entry, {error: str(e)} when its
\* client raised and the client's result otherwise; and send_alert answers
\* 200 with threat_id and channels whatever the channels did.
C2_ChannelFailuresIsolated ==
  \A p \in Tasks :
    /\ AlertDone(p) =>
         LET a == Top(p).req
             r == Top(p).loc.results
         IN \A c \in Channels :
              /\ (c \in a.channels /\ EnabledFor(ClientOf(c))
                    /\ (c = "call" => TruthyPhone(a.phone))) => Attempted(p, c)
              /\ Attempted(p, c) => c \in a.channels
              /\ c \in DOMAIN r <=> Attempted(p, c)
              /\ Attempted(p, c) => (Returned(p, c) \/ RaisedIn(p, c))
              /\ RaisedIn(p, c) =>
                   \E i \in Evs(p, {"raise"}) :
                     /\ log[p][i].ctx = <<"send_alert", ClientOf(c)>>
                     /\ r[c] = [error |-> StrExc(log[p][i].exc)]
              /\ Returned(p, c) => IsSuccess(r[c])
    /\ Serving(p, "send_alert") /\ ~Busy(p) =>
         /\ resp[p].kind = "ok" /\ resp[p].status = 200
         /\ DOMAIN resp[p].body = {"threat_id", "channels"}

C2_Witness ==
  \E p \in Tasks :
    /\ Answered(p, "send_alert")
    /\ RaisedIn(p, "teams") /\ Returned(p, "call") /\ Returned(p, "voice")
    /\ LET r == resp[p].body.channels IN
       IsError(r["teams"]) /\ IsSuccess(r["call"]) /\ IsSuccess(r["voice"])

\* ------------------------------------------------------------------ C3
\* C3 as claimed: every place that decides on a capability decides
\* "enabled iff all its required values are non-empty": the flags of GET /,
\* the preconditions of the three clients, the channel guards of send_alert.
C3_CapabilityDecisionsAgree ==
  \A p \in Tasks :
    /\ Answered(p, "root") =>
         resp[p].body.capabilities =
           [elevenlabs |-> SpeechEnabled, twilio |-> TelephonyEnabled, teams |-> ChatEnabled]
    /\ \A fn \in Clients :
         Answered(p, fn) =>
           ((resp[p].kind = "error" /\ resp[p].status = 503
               /\ resp[p].detail = NotConfigured(fn)) <=> ~EnabledFor(fn))
    /\ AlertDone(p) =>
         \A c \in Channels :
           Attempted(p, c) <=>
             (/\ c \in Top(p).req.channels
              /\ EnabledFor(ClientOf(c))
              /\ (c = "call" => TruthyPhone(Top(p).req.phone)))

\* ------------------------------------------------------------------ C4
\* C4: a request made directly to generate_voice, make_call or send_teams
\* whose own capability is not configured never gets past its first
\* statement: no coroutine is awaited, no upstream POST is issued, nothing
\* is stored, the cache is left as it was, and the answer is 503 with the
\* client's not-configured message, whatever the request body.
C4_Unconfigured(p) == \E fn \in Clients : Serving(p, fn) /\ ~EnabledFor(fn)

C4_NotConfiguredFailsFirst ==
  /\ [](\A p \in Tasks :
          C4_Unconfigured(p) =>
            /\ Evs(p, {"call", "post", "store", "new_id"}) = {}
            /\ Busy(p) => Len(stack[p]) = 1 /\ Top(p).pc = "start"
            /\ ~Busy(p) => \E fn \in Clients :
                 resp[p] = [kind |-> "error", op |-> fn, status |-> 503,
                            detail |-> NotConfigured(fn)])
  /\ [][\A p \in Tasks :
          (Busy(p) /\ C4_Unconfigured(p)) => audio_cache' = audio_cache]_vars

C4_Witness ==
  \E p \in Tasks :
    /\ Answered(p, "make_call")
    /\ SpeechEnabled /\ TWILIO_SID # "" /\ TWILIO_TOKEN # "" /\ TWILIO_FROM = ""
    /\ resp[p].status = 503

\* ------------------------------------------------------------------ C5
\* C5: get_audio(id) returns exactly the bytes of the most recent
\* successful synthesis under id: the bytes stored, when nothing was stored
\* under id since, and the last write when several were.
C5_FetchReturnsLastStore ==
  [][\A p \in Tasks :
       get_audio(p) =>
         (resp'[p].threat_id \in DOMAIN history =>
            /\ resp'[p].kind = "ok" /\ resp'[p].status = 200
            /\ resp'[p].body = history[resp'[p].threat_id].last)]_vars

C5_Witness ==
  \E p \in Tasks :
    /\ Answered(p, "get_audio")
    /\ resp[p].kind = "ok"
    /\ history[resp[p].threat_id].bytes = Audio
    /\ resp[p].body = history[resp[p].threat_id].last

\* ------------------------------------------------------------------ C6
\* C6: the identifiers in audio_cache are exactly those under which a
\* synthesis got status 200 from upstream; no step removes an entry; the
\* cache changes only when such a synthesis completes; and get_audio
\* answers 404 exactly for the identifiers never synthesized.
C6_CacheKeysAreSynthesizedIds ==
  /\ [](DOMAIN audio_cache = DOMAIN history)
  /\ [][/\ DOMAIN audio_cache \subseteq DOMAIN audio_cache'
        /\ audio_cache' # audio_cache => history' # history
        /\ \A p \in Tasks :
             get_audio(p) =>
               (resp'[p].status = 404 <=> resp'[p].threat_id \notin DOMAIN history)]_vars

C6_Witness ==
  \E p, q \in Tasks :
    /\ Answered(p, "generate_voice") /\ resp[p].kind = "error" /\ resp[p].status = 201
    /\ Answered(q, "get_audio") /\ resp[q].status = 404
    /\ audio_cache # EmptyDict

\* ------------------------------------------------------------------ C7
\* C7: one identifier per send_alert call: the caller's threat_id, or one
\* new ALT-<timestamp>; every successful channel result carries it, every
\* cache write of the call is under it, and no client inside the call makes
\* up a VOC- or TMS- identifier.
C7_AlertShares(p, supplied, tid, results) ==
  /\ IF Truthy(supplied) THEN tid = supplied.v
     ELSE Len(tid) = 2 /\ tid[1] = "ALT" /\ tid[2] \in Times
  /\ \A c \in DOMAIN results : IsSuccess(results[c]) => results[c].threat_id = tid
  /\ \A i \in Evs(p, {"store", "new_id"}) : log[p][i].id = tid
  /\ Evs(p, {"new_id"}) # {} => ~Truthy(supplied)

C7_OneIdentifierPerAlert ==
  \A p \in Tasks :
    /\ (Busy(p) /\ Outer(p).fn = "send_alert" /\ Outer(p).pc # "start") =>
         C7_AlertShares(p, Outer(p).req.threat_id, Outer(p).loc.threat_id,
                        Outer(p).loc.results)
    /\ Answered(p, "send_alert") =>
         /\ \A c \in DOMAIN resp[p].body.channels :
              IsSuccess(resp[p].body.channels[c]) =>
                resp[p].body.channels[c].threat_id = resp[p].body.threat_id
         /\ \A i \in Evs(p, {"store", "new_id"}) : log[p][i].id = resp[p].body.threat_id

C7_Witness ==
  \E p \in Tasks :
    /\ Answered(p, "send_alert")
    /\ resp[p].body.threat_id[1] = "ALT"
    /\ DOMAIN resp[p].body.channels = Channels
    /\ \A c \in Channels : IsSuccess(resp[p].body.channels[c])
    /\ Cardinality(Evs(p, {"store"})) = 3

\* ------------------------------------------------------------------ C8
\* C8: the upstream calls of one send_alert request run one after another
\* in the order teams' synthesis, teams' webhook, call's synthesis, the
\* telephony call, voice's synthesis: an upstream call is issued only after
\* the coroutine that issued the previous one has returned or raised, and
\* none is outstanding once the request is answered.
C8_Rank(e) ==
  CASE e.ctx = <<"send_alert", "send_teams", "generate_voice">> -> 1
    [] e.ctx = <<"send_alert", "send_teams">> -> 2
    [] e.ctx = <<"send_alert", "make_call", "generate_voice">> -> 3
    [] e.ctx = <<"send_alert", "make_call">> -> 4
    [] e.ctx = <<"send_alert", "generate_voice">> -> 5
    [] OTHER -> 0

C8_Ended(p, i, before) ==
  \E k \in Evs(p, {"return", "raise"}) : i < k /\ k < before /\ log[p][k].ctx = log[p][i].ctx

C8_AllSucceeded(p) ==
  /\ Top(p).req.channels = Channels
  /\ \A c \in Channels : Returned(p, c)
  /\ Has(p, "return", <<"send_alert", "send_teams", "generate_voice">>)

\* The clients send_alert awaited, in the order it awaited them.
C8_IsClientCall(e) == e.ev = "call" /\ Len(e.ctx) = 2
C8_ClientsAwaited(p) ==
  LET calls == SelectSeq(log[p], C8_IsClientCall)
  IN [i \in 1..Len(calls) |-> calls[i].ctx[2]]

C8_UpstreamCallsInOrder ==
  \A p \in Tasks :
    Serving(p, "send_alert") =>
      /\ \A i \in Evs(p, {"post"}) : C8_Rank(log[p][i]) > 0
      /\ \A i, j \in Evs(p, {"post"}) :
           i < j => /\ C8_Rank(log[p][i]) < C8_Rank(log[p][j])
                    /\ C8_Ended(p, i, j)
      /\ \A i, j \in Evs(p, {"call"}) :
           (i < j /\ Len(log[p][i].ctx) = 2 /\ Len(log[p][j].ctx) = 2) =>
             \E k \in Evs(p, {"return", "raise"}) :
               i < k /\ k < j /\ log[p][k].ctx = log[p][i].ctx
      /\ ~Busy(p) =>
           /\ \A i \in Evs(p, {"post", "call"}) : C8_Ended(p, i, Len(log[p]) + 1)
           /\ log[p][Len(log[p])] = [ev |-> "return", ctx |-> <<"send_alert">>]
      /\ (AlertDone(p) /\ Top(p).req.channels = Channels /\ SpeechEnabled
            /\ TelephonyEnabled /\ ChatEnabled /\ TruthyPhone(Top(p).req.phone)) =>
           C8_ClientsAwaited(p) = <<"send_teams", "make_call", "generate_voice">>
      /\ (AlertDone(p) /\ C8_AllSucceeded(p)) =>
           {C8_Rank(log[p][i]) : i \in Evs(p, {"post"})} = 1..5

C8_Witness ==
  \E p \in Tasks :
    /\ Answered(p, "send_alert")
    /\ Cardinality(Evs(p, {"post"})) = 5
    /\ \A c \in Channels : Returned(p, c)

\* ------------------------------------------------------------------ C9
\* C9: with synthesis and retrieval requests in flight together, a reader
\* of id gets 404 or the whole bytes of one synthesis that already stored
\* under id, never other bytes; and when no request is in flight every
\* entry holds the bytes of the last store under its identifier.
C9_ReadersSeeWholeStores ==
  /\ []((\A p \in Tasks : ~Busy(p)) =>
          \A id \in DOMAIN history :
            id \in DOMAIN audio_cache /\ audio_cache[id] = history[id].last)
  /\ [][\A p \in Tasks :
          get_audio(p) =>
            \/ resp'[p].status = 404
            \/ /\ resp'[p].status = 200
               /\ resp'[p].threat_id \in DOMAIN history
               /\ resp'[p].body \in history[resp'[p].threat_id].bytes]_vars

\* A reader got a stored entry while a writer under the same identifier
\* was awaiting upstream.
C9_Witness ==
  \E p, q \in Tasks :
    /\ Answered(p, "get_audio") /\ resp[p].kind = "ok"
    /\ At(q, "generate_voice", "await_post")
    /\ Top(q).loc.threat_id = resp[p].threat_id

\* ----------------------------------------------------------------- C10
\* C10: make_call places the telephony call only after its inner
\* generate_voice returned; when that synthesis raises, make_call raises
\* the same error and posts nothing to Twilio; on success the threat_id
\* returned is the one the synthesis resolved (the caller's, or a new
\* VOC-<timestamp>) and audio_cache has an entry under it.
C10_CallNeedsSynthesis ==
  \A p \in Tasks :
    /\ \A i \in Evs(p, {"post"}) :
         log[p][i].api = "twilio" =>
           \E k \in Evs(p, {"return"}) :
             k < i /\ log[p][k].ctx = log[p][i].ctx \o <<"generate_voice">>
    /\ \A k \in Evs(p, {"raise"}) :
         (Len(log[p][k].ctx) >= 2 /\ log[p][k].ctx[Len(log[p][k].ctx) - 1] = "make_call") =>
           /\ \A i \in Evs(p, {"post"}) : log[p][i].api # "twilio"
           /\ k < Len(log[p]) =>
                log[p][k + 1] = [ev |-> "raise", ctx |-> SubSeq(log[p][k].ctx, 1, Len(log[p][k].ctx) - 1),
                                 exc |-> log[p][k].exc]
           /\ Answered(p, "make_call") =>
                resp[p] = HTTPResponse("make_call", Raise(log[p][k].exc))
    /\ (Busy(p) /\ Top(p).fn = "make_call" /\ Top(p).pc = "await_post") =>
         LET id == Top(p).loc.voice_result.threat_id IN
         /\ IF Truthy(Top(p).req.threat_id) THEN id = Top(p).req.threat_id.v
            ELSE Len(id) = 2 /\ id[1] = "VOC" /\ id[2] \in Times
         /\ id \in DOMAIN audio_cache
    /\ (Answered(p, "make_call") /\ resp[p].kind = "ok") =>
         /\ resp[p].body.threat_id \in DOMAIN audio_cache
         /\ \E i \in Evs(p, {"store"}) : log[p][i].id = resp[p].body.threat_id

C10_Witness ==
  \E p \in Tasks :
    /\ Answered(p, "make_call") /\ resp[p].kind = "ok"
    /\ resp[p].body.threat_id[1] = "VOC"

====
